---- MODULE Spec2Model ----
(***************************************************************************)
(* llm-trader-battle: the daily flow of the command line (predict,         *)
(* fetch-daily, aggregate-daily) over the persisted picks, price           *)
(* snapshots, daily results and reports.                                   *)
(*                                                                         *)
(* Dates are day numbers: day 0 is a Monday, Weekday(d) = d % 7 is what    *)
(* date.weekday() returns.  An ISO date string sorts and compares like its *)
(* day number, so week ids and result names are day numbers too.           *)
(* Prices are naturals, None is NULL.  A float result is kept exact, as a  *)
(* reduced fraction <<n, d>>.                                               *)
(***************************************************************************)
EXTENDS Integers, Sequences, FiniteSets, TLC

VARIABLES picksFiles, current, prices, results, weekReports, monthSummary,
          charts, run, nOps, probe, closedFile

vars == <<picksFiles, current, prices, results, weekReports, monthSummary,
          charts, run, nOps, probe, closedFile>>

-----------------------------------------------------------------------------
(* Bounds of the exploration *)

\* invocations of the command line in a run
MaxOps == 5

\* --week-start values given to predict
WeekStartInputs == {0, 7}
\* --date values given to fetch-daily and aggregate-daily
DateInputs == {0, 1, 2, 4}
\* --llms values given to predict
LlmInputs == {<<"gpt">>, <<"claude", "gpt">>}

-----------------------------------------------------------------------------
(* Values *)

NULL == -1

\* None as a float result, and a raised ZeroDivisionError
NullRet == <<0, 0>>
ZeroDivisionError == <<1, 0>>

EmptyFn == [x \in {} |-> NULL]

Abs(n) == IF n < 0 THEN 0 - n ELSE n

RECURSIVE GCD(_, _)
GCD(a, b) == IF b = 0 THEN a ELSE GCD(b, a % b)

\* the fraction n/d, d > 0, reduced
Frac(n, d) ==
    LET g == GCD(Abs(n), d)
    IN  <<(IF n < 0 THEN 0 - (Abs(n) \div g) ELSE n \div g), d \div g>>

\* Python's a / b on numbers
TrueDiv(n, d) ==
    IF d = 0 THEN ZeroDivisionError
    ELSE IF d < 0 THEN Frac(0 - n, 0 - d)
    ELSE Frac(n, d)

FracAdd(a, b) == Frac(a[1] * b[2] + b[1] * a[2], a[2] * b[2])

RECURSIVE FracSum(_)
FracSum(vals) ==
    IF vals = <<>> THEN <<0, 1>> ELSE FracAdd(vals[1], FracSum(Tail(vals)))

\* sum(vals) / len(vals) if vals else None
MeanOrNone(vals) ==
    IF vals = <<>> THEN NullRet
    ELSE LET s == FracSum(vals) IN Frac(s[1], s[2] * Len(vals))

Range(f) == {f[x] : x \in DOMAIN f}

-----------------------------------------------------------------------------
(* market_calendar.py *)

\* jpholiday.is_holiday: the Monday of the first week is a national holiday
JpHolidays == {0}
\* an entry of data/calendar/manual_closed_dates.json: the ISO string of a day,
\* a string that is no date, a number
DateItem(d) == [type |-> "date", day |-> d]
TextItem == [type |-> "text", day |-> NULL]
NumberItem == [type |-> "number", day |-> NULL]

\* the file as it is kept: the Friday of the second week is closed by hand
ClosedFileKept == [kind |-> "list", items |-> <<DateItem(11)>>]

\* manual_closed_dates() on the file: load_json_optional gives None for no
\* file and raises on a file that cannot be read or is not JSON; anything
\* empty or not a list gives set(); of a list the ISO dates are kept, a string
\* that is no date is passed over, and fromisoformat raises on a non-string
manual_closed_dates(file) ==
    IF file.kind = "absent" THEN [raised |-> "", dates |-> {}]
    ELSE IF file.kind = "unreadable" THEN [raised |-> "OSError", dates |-> {}]
    ELSE IF file.kind = "malformed" THEN [raised |-> "JSONDecodeError", dates |-> {}]
    ELSE IF file.kind # "list" \/ file.items = <<>> THEN [raised |-> "", dates |-> {}]
    ELSE IF \E i \in DOMAIN file.items : file.items[i].type = "number"
    THEN [raised |-> "TypeError", dates |-> {}]
    ELSE [raised |-> "",
          dates |-> {file.items[i].day : i \in {j \in DOMAIN file.items :
                                                  file.items[j].type = "date"}}]

\* the override file with what manual_closed_dates() returned for it, which
\* lru_cache keeps for the invocation
Override(file) == [file |-> file, loaded |-> manual_closed_dates(file)]

ManualClosedDates == closedFile.loaded.dates

Weekday(d) == d % 7

\* the days to the Monday at or after d, a Monday staying where it is
next_monday_or_today(d) == d + ((7 - Weekday(d)) % 7)

\* d + timedelta(days=(7 - d.weekday()) % 7 or 7)
next_monday(d) == d + (IF (7 - Weekday(d)) % 7 = 0 THEN 7 ELSE (7 - Weekday(d)) % 7)

week_start_for(d) == d - Weekday(d)

is_trading_day(d) ==
    /\ Weekday(d) < 5
    /\ d \notin JpHolidays
    /\ d \notin ManualClosedDates

\* the first day from start on that is no Saturday or Sunday
RECURSIVE next_trading_day_weekdays_only(_)
next_trading_day_weekdays_only(start) ==
    IF Weekday(start) < 5 THEN start ELSE next_trading_day_weekdays_only(start + 1)

\* next_trading_day: the loop runs until is_trading_day holds
RECURSIVE next_trading_day(_)
next_trading_day(start) ==
    IF is_trading_day(start) THEN start ELSE next_trading_day(start + 1)

trading_days_in_week(week_start) ==
    SelectSeq([i \in 1..7 |-> week_start + (i - 1)], is_trading_day)

SeqMax(s) == CHOOSE x \in Range(s) : \A y \in Range(s) : y <= x

\* the Friday of the week, whatever the calendar
week_final_is_friday(week_start) == week_start + 4

week_final_trading_day(week_start) ==
    LET days == trading_days_in_week(week_start)
    IN  IF days # <<>> THEN SeqMax(days) ELSE NULL

\* a Friday, whatever the calendar
is_friday(d) == Weekday(d) = 4

is_week_final_trading_day(d) == week_final_trading_day(week_start_for(d)) = d

\* target.strftime("%Y-%m"): the month turns between day 2 and day 3
FirstOfNextMonth == 3
MonthOf(d) == IF d < FirstOfNextMonth THEN 0 ELSE 1

-----------------------------------------------------------------------------
(* storage.py *)

\* dump_json: the file at key holds data, whatever it held
dump_json(files, key, data) ==
    [k \in DOMAIN files \cup {key} |-> IF k = key THEN data ELSE files[k]]

-----------------------------------------------------------------------------
(* picks.py *)

\* sorted() on the model names that occur
ModelOrder == <<"claude", "gpt">>

SortedModels(S) == SelectSeq(ModelOrder, LAMBDA m : m \in S)

Take(s, n) == IF Len(s) <= n THEN s ELSE SubSeq(s, 1, n)

Blank(n) == [i \in 1..n |-> ""]

\* what client.generate answers, or its failure (a missing credential, an
\* unparseable answer)
Failure == [fail |-> TRUE, symbols |-> <<>>, reasons |-> <<>>, methods |-> <<>>]

Answer(symbols, reasons, methods) ==
    [fail |-> FALSE, symbols |-> symbols, reasons |-> reasons, methods |-> methods]

ResponsesOf(model) ==
    IF model = "gpt"
    THEN {Answer(<<"A", "B">>, <<"ra", "rb">>, <<"ma", "mb">>),
          Answer(<<"A">>, <<"ra">>, <<"ma">>),
          Failure}
    ELSE {Answer(<<"B", "B", "A">>, <<>>, <<>>), Failure}

\* the answers the clients of llms can give, one for each model
ResponseMaps(llms) ==
    {resp \in [Range(llms) -> UNION {ResponsesOf(m) : m \in Range(llms)}] :
        \A m \in Range(llms) : resp[m] \in ResponsesOf(m)}

\* what a predict invocation is given: the --llms list and the clients' answers
PredictInputs == UNION {{<<llms, resp>> : resp \in ResponseMaps(llms)} : llms \in LlmInputs}

LlmPick(model, resp) ==
    LET symbols == Take(resp.symbols, 2)
    IN  [model |-> model,
         symbols |-> symbols,
         reasons |-> IF resp.reasons # <<>> THEN Take(resp.reasons, 2)
                     ELSE Blank(Len(symbols)),
         methods |-> IF resp.methods # <<>> THEN Take(resp.methods, 2)
                     ELSE Blank(Len(symbols))]

\* the loop without its check of the number of symbols
RECURSIVE GenerateLoop_no_minimum(_, _, _)
GenerateLoop_no_minimum(models, resp, picks) ==
    IF models = <<>> THEN [raised |-> FALSE, picks |-> picks]
    ELSE LET model == Head(models)
         IN  IF resp[model].fail
             THEN [raised |-> TRUE, picks |-> picks]
             ELSE GenerateLoop_no_minimum(Tail(models), resp,
                                          Append(picks, LlmPick(model, resp[model])))

\* the loop of generate_llm_picks: an exception of the client, or fewer than
\* two symbols, leaves the loop with the exception
RECURSIVE GenerateLoop(_, _, _)
GenerateLoop(models, resp, picks) ==
    IF models = <<>> THEN [raised |-> FALSE, picks |-> picks]
    ELSE LET model == Head(models)
         IN  IF resp[model].fail \/ Len(Take(resp[model].symbols, 2)) < 2
             THEN [raised |-> TRUE, picks |-> picks]
             ELSE GenerateLoop(Tail(models), resp,
                               Append(picks, LlmPick(model, resp[model])))

picks_to_object(week_id, picks) ==
    [week_start |-> week_id,
     picks |-> [m \in {picks[i].model : i \in DOMAIN picks} |->
                  LET pick == picks[CHOOSE i \in DOMAIN picks :
                                      /\ picks[i].model = m
                                      /\ \A j \in DOMAIN picks :
                                            picks[j].model = m => j <= i]
                  IN  [idx \in 1..Len(pick.symbols) |->
                         [symbol |-> pick.symbols[idx],
                          reason |-> IF idx <= Len(pick.reasons)
                                     THEN pick.reasons[idx] ELSE "",
                          method |-> IF idx <= Len(pick.methods)
                                     THEN pick.methods[idx] ELSE "",
                          symbol_index |-> idx - 1]]]]

\* sorted(entries, key=symbol_index): a stable insertion sort
RECURSIVE InsertByIndex(_, _)
InsertByIndex(e, sorted) ==
    IF sorted = <<>> THEN <<e>>
    ELSE IF e.symbol_index < Head(sorted).symbol_index THEN <<e>> \o sorted
    ELSE <<Head(sorted)>> \o InsertByIndex(e, Tail(sorted))

\* the entries in the order of the file
SortByIndex_stored_order(entries) == entries

RECURSIVE SortByIndex(_)
SortByIndex(entries) ==
    IF entries = <<>> THEN <<>>
    ELSE InsertByIndex(entries[Len(entries)],
                       SortByIndex(SubSeq(entries, 1, Len(entries) - 1)))

\* _object_to_picks on the document at key, [] when there is none
object_to_picks(files, key) ==
    IF key \notin DOMAIN files THEN <<>>
    ELSE LET field == files[key].picks
             models == SortedModels(DOMAIN field)
         IN  [i \in 1..Len(models) |->
                LET entries == SortByIndex(field[models[i]])
                IN  [model |-> models[i],
                     symbols |-> [k \in 1..Len(entries) |-> entries[k].symbol],
                     reasons |-> [k \in 1..Len(entries) |-> entries[k].reason],
                     methods |-> [k \in 1..Len(entries) |-> entries[k].method]]]

load_current_picks == object_to_picks(current, "current")

load_picks(week_id) == object_to_picks(picksFiles, week_id)

\* the week's file alone, current.json left as it was
save_week_only(week_id, picks) ==
    /\ picksFiles' = dump_json(picksFiles, week_id, picks_to_object(week_id, picks))
    /\ current' = current

\* save_picks, then the same record as current.json
save_week_and_current(week_id, picks) ==
    /\ picksFiles' = dump_json(picksFiles, week_id, picks_to_object(week_id, picks))
    /\ current' = dump_json(current, "current", picks_to_object(week_id, picks))

\* how an invocation ended: the command, its date or week, the exception that
\* ended it ("ok" for none, "skip" for the non-trading day), what fetch-daily
\* got from the price source, and whether it repeats the invocation before it
Exit(op, date, status, fetched) ==
    [op |-> op, date |-> date, status |-> status, fetched |-> fetched,
     again |-> run.op = op /\ run.date = date]

\* predict saving the picks gathered before the failure
Predict_keeping_partial(week_id, llms, resp) ==
    /\ nOps < MaxOps
    /\ nOps' = nOps + 1
    /\ LET gen == GenerateLoop(llms, resp, <<>>)
       IN  /\ save_week_and_current(week_id, gen.picks)
           /\ run' = Exit("predict", week_id, IF gen.raised THEN "ValueError" ELSE "ok",
                          EmptyFn)
    /\ UNCHANGED <<prices, results, weekReports, monthSummary, charts, probe, closedFile>>

\* predict --week-start week_id --llms llms, the clients answering resp
Predict(week_id, llms, resp) ==
    /\ nOps < MaxOps
    /\ nOps' = nOps + 1
    /\ LET gen == GenerateLoop(llms, resp, <<>>)
       IN  IF gen.raised
           THEN /\ run' = Exit("predict", week_id, "ValueError", EmptyFn)
                /\ UNCHANGED <<picksFiles, current>>
           ELSE /\ save_week_and_current(week_id, gen.picks)
                /\ run' = Exit("predict", week_id, "ok", EmptyFn)
    /\ UNCHANGED <<prices, results, weekReports, monthSummary, charts, probe, closedFile>>

-----------------------------------------------------------------------------
(* prices.py *)

Quote(o, h, l, c) == [open |-> o, high |-> h, low |-> l, close |-> c]

\* what the price source answers for the symbols of one day: nothing at all,
\* A opened and B missing, both closed, A opened at zero, A closed and B missing
Answers ==
    {[A |-> Quote(NULL, NULL, NULL, NULL), B |-> Quote(NULL, NULL, NULL, NULL)],
     [A |-> Quote(4, NULL, NULL, NULL), B |-> Quote(NULL, NULL, NULL, NULL)],
     [A |-> Quote(2, 3, 1, 3), B |-> Quote(4, 4, 1, 1)],
     [A |-> Quote(0, 1, 0, 1), B |-> Quote(4, 4, 1, 1)],
     [A |-> Quote(2, 3, 1, 3), B |-> Quote(NULL, NULL, NULL, NULL)]}

\* day_prices.get(s, {}).get(field)
Field(day_prices, s, field) ==
    IF s \in DOMAIN day_prices THEN day_prices[s][field] ELSE NULL

\* load_daily_prices(d) or {}
load_daily_prices(store, d) == IF d \in DOMAIN store THEN store[d] ELSE EmptyFn

\* the snapshot of the day written and those of the other days removed
save_daily_prices_alone(store, d, payload) == [k \in {d} |-> payload]

\* save_daily_prices: the payload is dumped, twice, over the file of the day
save_daily_prices(store, d, payload) ==
    dump_json(dump_json(store, d, payload), d, payload)

SymbolsOf(picks) == UNION {Range(picks[i].symbols) : i \in DOMAIN picks}

\* what fetch_open_close got is saved as the snapshot of the day
FetchSave(d, fetched) ==
    /\ prices' = save_daily_prices(prices, d, fetched)
    /\ run' = Exit("fetch", d, "ok", fetched)

\* fetch-daily past the calendar: the current picks and their symbols
FetchLoaded(d, picks, symbols) ==
    IF picks = <<>> \/ symbols = {}
    THEN /\ run' = Exit("fetch", d, "SystemExit", EmptyFn)
         /\ UNCHANGED prices
    ELSE \E answer \in Answers : FetchSave(d, [s \in symbols |-> answer[s]])

\* fetch-daily --date d
FetchDaily(d) ==
    /\ nOps < MaxOps
    /\ nOps' = nOps + 1
    /\ IF ~is_trading_day(d)
       THEN /\ run' = Exit("fetch", d, "skip", EmptyFn)
            /\ UNCHANGED prices
       ELSE FetchLoaded(d, load_current_picks, SymbolsOf(load_current_picks))
    /\ UNCHANGED <<picksFiles, current, results, weekReports, monthSummary, charts, probe,
                   closedFile>>

-----------------------------------------------------------------------------
(* report.py *)

\* (close_p - open_p) / open_p, None when a side is None
ReturnOf(open_p, close_p) ==
    IF open_p = NULL \/ close_p = NULL THEN NullRet
    ELSE TrueDiv(close_p - open_p, open_p)

compute_returns(px) == [s \in DOMAIN px |-> ReturnOf(px[s].open, px[s].close)]

Raises(returns) == \E s \in DOMAIN returns : returns[s] = ZeroDivisionError

\* returns.get(s)
Get(returns, s) == IF s \in DOMAIN returns THEN returns[s] ELSE NullRet

Defined(vals) == SelectSeq(vals, LAMBDA r : r # NullRet)

compute_llm_avg(picks, returns) ==
    [m \in {picks[i].model : i \in DOMAIN picks} |->
       LET pick == picks[CHOOSE i \in DOMAIN picks :
                           /\ picks[i].model = m
                           /\ \A j \in DOMAIN picks : picks[j].model = m => j <= i]
       IN  MeanOrNone(Defined([k \in DOMAIN pick.symbols |->
                                  Get(returns, pick.symbols[k])]))]

\* the loop of find_week_buy_prices over the trading days, from the i-th on
RECURSIVE BuyLoop(_, _, _, _, _)
BuyLoop(days, i, buys, until, store) ==
    IF i > Len(days) \/ days[i] > until THEN buys
    ELSE LET day_prices == load_daily_prices(store, days[i])
             next == [s \in DOMAIN buys |->
                        IF buys[s] = NULL /\ Field(day_prices, s, "open") # NULL
                        THEN Field(day_prices, s, "open")
                        ELSE buys[s]]
         IN  IF \A s \in DOMAIN next : next[s] # NULL THEN next
             ELSE BuyLoop(days, i + 1, next, until, store)

\* the loop without its break at d > until
find_week_buy_prices_no_break(symbols, week_start, until, store) ==
    BuyLoop(trading_days_in_week(week_start), 1, [s \in symbols |-> NULL],
            week_start + 6, store)

\* the open of the target day alone
find_week_buy_prices_target_only(symbols, week_start, until, store) ==
    BuyLoop(SelectSeq(trading_days_in_week(week_start), LAMBDA d : d = until), 1,
            [s \in symbols |-> NULL], until, store)

find_week_buy_prices(symbols, week_start, until, store) ==
    BuyLoop(trading_days_in_week(week_start), 1, [s \in symbols |-> NULL],
            until, store)

\* "{:.2f}".format(x or 0.0) and "{:.2%}".format(r or 0.0)
OrZero(x) == IF x = NULL THEN 0 ELSE x
OrZeroRet(r) == IF r = NullRet THEN <<0, 1>> ELSE r

\* the rows summarize_daily and summarize_week write for each pick: two symbol
\* rows and the Avg row, which is N/A (NullRet) when no return is defined
TableRows(picks, opens, closes, returns) ==
    [i \in DOMAIN picks |->
       LET symbols == picks[i].symbols
       IN  [model |-> picks[i].model,
            symbols |-> symbols,
            open |-> [k \in 1..2 |-> OrZero(opens[symbols[k]])],
            close |-> [k \in 1..2 |-> OrZero(closes[symbols[k]])],
            ret |-> [k \in 1..2 |-> OrZeroRet(Get(returns, symbols[k]))],
            avg |-> MeanOrNone(Defined([k \in 1..2 |-> Get(returns, symbols[k])]))]]

summarize_daily(target_date, picks, prices_today, buy_prices) ==
    LET closes == [s \in DOMAIN buy_prices |-> Field(prices_today, s, "close")]
        returns == compute_returns([s \in DOMAIN buy_prices |->
                       [open |-> buy_prices[s], close |-> closes[s]]])
    IN  [title |-> target_date,
         rows |-> TableRows(picks, buy_prices, closes, returns)]

summarize_week(week, picks, px) ==
    [title |-> week,
     rows |-> TableRows(picks, [s \in DOMAIN px |-> px[s].open],
                        [s \in DOMAIN px |-> px[s].close], compute_returns(px))]

\* the fresh averages added onto the persisted ones of the date
save_daily_result_accumulating(files, target_date, content, payload) ==
    dump_json(files, target_date,
        [md |-> content,
         json |-> [payload EXCEPT !.llm_avg =
                     [m \in DOMAIN payload.llm_avg |->
                        IF /\ target_date \in DOMAIN files
                           /\ m \in DOMAIN files[target_date].json.llm_avg
                           /\ files[target_date].json.llm_avg[m] # NullRet
                           /\ payload.llm_avg[m] # NullRet
                        THEN FracAdd(files[target_date].json.llm_avg[m], payload.llm_avg[m])
                        ELSE payload.llm_avg[m]]]])

\* save_daily_result: result-<date>.md and result-<date>.json
save_daily_result(files, target_date, content, payload) ==
    dump_json(files, target_date, [md |-> content, json |-> payload])

\* the week-final report: the week's table under its first and last day
summarize_week_final(week_start, week_end, picks, week_prices) ==
    [week_end |-> week_end, body |-> summarize_week(week_start, picks, week_prices)]

save_week_final_report(files, week_start, week_md) ==
    dump_json(files, week_start, week_md)

\* sorted() on dates
RECURSIVE Sorted(_)
Sorted(S) ==
    IF S = {} THEN <<>>
    ELSE LET m == CHOOSE x \in S : \A y \in S : x <= y
         IN  <<m>> \o Sorted(S \ {m})

\* the parameters update_month_summary declares
UpdateMonthSummaryParams == {"month", "llms", "daily_llm", "chart_path", "holdings"}

\* the body of update_month_summary: the models, one row a day in ascending
\* order with N/A (NullRet) for a missing value, the chart link, the holdings
update_month_summary(month, llms, daily_llm, chart_path, holdings) ==
    [month |-> month,
     llms |-> llms,
     table |-> LET days == Sorted(DOMAIN daily_llm)
               IN  [i \in DOMAIN days |->
                      [day |-> days[i],
                       cells |-> [k \in DOMAIN llms |-> Get(daily_llm[days[i]], llms[k])]]],
     chart |-> chart_path,
     holdings |-> holdings]

-----------------------------------------------------------------------------
(* cli.py *)

\* returns_per_symbol of handle_aggregate_daily
returns_per_symbol(picks, target, store) ==
    LET buy_prices == find_week_buy_prices(SymbolsOf(picks), week_start_for(target),
                                           target, store)
    IN  [s \in SymbolsOf(picks) |->
           [buy_open |-> buy_prices[s],
            close |-> Field(load_daily_prices(store, target), s, "close")]]

\* the loop with a missing return counted as a return of zero
llm_avg_loop_zero_for_none(picks, rps) ==
    [m \in {picks[i].model : i \in DOMAIN picks} |->
       LET pick == picks[CHOOSE i \in DOMAIN picks :
                           /\ picks[i].model = m
                           /\ \A j \in DOMAIN picks : picks[j].model = m => j <= i]
       IN  MeanOrNone([k \in DOMAIN pick.symbols |->
                         IF rps[pick.symbols[k]].buy_open # NULL
                            /\ rps[pick.symbols[k]].close # NULL
                         THEN TrueDiv(rps[pick.symbols[k]].close
                                        - rps[pick.symbols[k]].buy_open,
                                      rps[pick.symbols[k]].buy_open)
                         ELSE <<0, 1>>])]

\* the loop that fills llm_avg: (close - buy) / buy over the symbols of a pick
\* whose buy and close are both there
llm_avg_loop(picks, rps) ==
    [m \in {picks[i].model : i \in DOMAIN picks} |->
       LET pick == picks[CHOOSE i \in DOMAIN picks :
                           /\ picks[i].model = m
                           /\ \A j \in DOMAIN picks : picks[j].model = m => j <= i]
           usable == SelectSeq(pick.symbols,
                               LAMBDA s : rps[s].buy_open # NULL /\ rps[s].close # NULL)
       IN  MeanOrNone([k \in DOMAIN usable |->
                         TrueDiv(rps[usable[k]].close - rps[usable[k]].buy_open,
                                 rps[usable[k]].buy_open)])]

\* the division of summarize_daily or of the llm_avg loop raises
DivisionRaises(rps) ==
    \E s \in DOMAIN rps :
       rps[s].buy_open # NULL /\ rps[s].close # NULL /\ rps[s].buy_open = 0

\* daily_llm: the llm_avg of every persisted result of the month, and the fresh
\* one for the target
daily_llm_of(files, target, llm_avg) ==
    [day \in {x \in DOMAIN files : MonthOf(x) = MonthOf(target)} \cup {target} |->
       IF day = target THEN llm_avg ELSE files[day].json.llm_avg]

AnyValue(v) == \E m \in DOMAIN v : v[m] # NullRet

filtered_daily_llm_of(daily_llm) ==
    [day \in {x \in DOMAIN daily_llm : AnyValue(daily_llm[x])} |-> daily_llm[day]]

llm_list_of(daily_llm) == SortedModels(UNION {DOMAIN daily_llm[day] : day \in DOMAIN daily_llm})

\* the holdings of the month: one record for each model of each picks file
holdings_of(files, target) ==
    {[week_start |-> w,
      week_end |-> IF week_final_trading_day(w) # NULL
                   THEN week_final_trading_day(w) ELSE w + 4,
      model |-> m,
      picks |-> [k \in DOMAIN files[w].picks[m] |->
                   [symbol |-> files[w].picks[m][k].symbol,
                    reason |-> files[w].picks[m][k].reason,
                    method |-> files[w].picks[m][k].method]]]
       : <<w, m>> \in {<<w, m>> \in (DOMAIN files) \X Range(ModelOrder) :
                          MonthOf(w) = MonthOf(target) /\ m \in DOMAIN files[w].picks}}

week_finals_of(filtered) == {d \in DOMAIN filtered : is_week_final_trading_day(d)}

\* the keywords handle_aggregate_daily passes to update_month_summary
AggregateKeywords == {"chart_path", "holdings", "week_finals"}

\* the monthly summary update: the chart is drawn, then update_month_summary
\* is called with the keywords above, which it has to declare
MonthlyUpdate(target, saved, llm_avg, daily_llm, filtered, llm_list) ==
    /\ charts' = IF filtered # EmptyFn /\ llm_list # <<>>
                 THEN charts \cup {MonthOf(target)} ELSE charts
    /\ IF AggregateKeywords \subseteq UpdateMonthSummaryParams
       THEN /\ monthSummary' =
                 dump_json(monthSummary, MonthOf(target),
                     update_month_summary(MonthOf(target), llm_list, filtered,
                         MonthOf(target) \in charts', holdings_of(picksFiles, target)))
            /\ run' = Exit("aggregate", target, "ok", EmptyFn)
       ELSE /\ monthSummary' = monthSummary
            /\ run' = Exit("aggregate", target, "TypeError", EmptyFn)

\* the daily result, the week-final report and the monthly summary, in this order
AggregateWrite(target, picks, rps, llm_avg, saved) ==
    /\ results' = saved
    /\ weekReports' =
         IF is_week_final_trading_day(target)
         THEN save_week_final_report(weekReports, week_start_for(target),
                  summarize_week_final(week_start_for(target), target, picks,
                      [s \in DOMAIN rps |->
                         [open |-> rps[s].buy_open, close |-> rps[s].close]]))
         ELSE weekReports
    /\ MonthlyUpdate(target, saved, llm_avg,
                     daily_llm_of(saved, target, llm_avg),
                     filtered_daily_llm_of(daily_llm_of(saved, target, llm_avg)),
                     llm_list_of(daily_llm_of(saved, target, llm_avg)))

AggregateCompute(target, picks, today_prices, rps) ==
    IF DivisionRaises(rps)
    THEN /\ run' = Exit("aggregate", target, "ZeroDivisionError", EmptyFn)
         /\ UNCHANGED <<results, weekReports, monthSummary, charts>>
    ELSE AggregateWrite(target, picks, rps, llm_avg_loop(picks, rps),
             save_daily_result(results, target,
                 summarize_daily(target, picks, today_prices,
                                 [s \in DOMAIN rps |-> rps[s].buy_open]),
                 [date |-> target, llm_avg |-> llm_avg_loop(picks, rps),
                  per_symbol |-> rps]))

\* the aggregation going on without a snapshot of the day
AggregateLoaded_prices_optional(target, picks, today_prices) ==
    IF picks = <<>>
    THEN /\ run' = Exit("aggregate", target, "SystemExit", EmptyFn)
         /\ UNCHANGED <<results, weekReports, monthSummary, charts>>
    ELSE AggregateCompute(target, picks, today_prices,
                          returns_per_symbol(picks, target, prices))

AggregateLoaded(target, picks, today_prices) ==
    IF picks = <<>> \/ today_prices = EmptyFn
    THEN /\ run' = Exit("aggregate", target, "SystemExit", EmptyFn)
         /\ UNCHANGED <<results, weekReports, monthSummary, charts>>
    ELSE AggregateCompute(target, picks, today_prices,
                          returns_per_symbol(picks, target, prices))

\* aggregate-daily without its look at the calendar
AggregateDaily_every_day(target) ==
    /\ nOps < MaxOps
    /\ nOps' = nOps + 1
    /\ UNCHANGED <<picksFiles, current, prices, probe, closedFile>>
    /\ AggregateLoaded(target, load_current_picks, load_daily_prices(prices, target))

\* aggregate-daily --date target
AggregateDaily(target) ==
    /\ nOps < MaxOps
    /\ nOps' = nOps + 1
    /\ UNCHANGED <<picksFiles, current, prices, probe, closedFile>>
    /\ IF ~is_trading_day(target)
       THEN /\ run' = Exit("aggregate", target, "skip", EmptyFn)
            /\ UNCHANGED <<results, weekReports, monthSummary, charts>>
       ELSE AggregateLoaded(target, load_current_picks,
                            load_daily_prices(prices, target))

-----------------------------------------------------------------------------

\* a call of find_week_buy_prices: its arguments and what it returned; fresh
\* until a snapshot is written after it
NoProbe == [symbols |-> {}, week_start |-> NULL, until |-> NULL, buys |-> EmptyFn,
            fresh |-> FALSE]

Init ==
    /\ picksFiles = EmptyFn
    /\ current = EmptyFn
    /\ prices = EmptyFn
    /\ results = EmptyFn
    /\ weekReports = EmptyFn
    /\ monthSummary = EmptyFn
    /\ charts = {}
    /\ run = [op |-> "start", date |-> NULL, status |-> "ok", fetched |-> EmptyFn,
               again |-> FALSE]
    /\ nOps = 0
    /\ probe = NoProbe
    /\ closedFile = Override(ClosedFileKept)

Next ==
    \/ \E week_id \in WeekStartInputs, input \in PredictInputs :
          Predict(week_id, input[1], input[2])
    \/ \E d \in DateInputs : FetchDaily(d)
    \/ \E d \in DateInputs : AggregateDaily(d)

Spec == Init /\ [][Next]_vars

-----------------------------------------------------------------------------
(* The buy-price resolution alone: snapshots of new days are written, each as  *)
(* fetch-daily writes it, and find_week_buy_prices is called on what is there. *)

Symbols == {"A", "B"}
Fields == {"open", "high", "low", "close"}
Dates == UNION {w..(w + 6) : w \in WeekStartInputs}

PutSnapshot(d, answer) ==
    /\ is_trading_day(d)
    /\ d \notin DOMAIN prices
    /\ prices' = save_daily_prices(prices, d, answer)
    /\ probe' = [probe EXCEPT !.fresh = FALSE]
    /\ UNCHANGED <<picksFiles, current, results, weekReports, monthSummary,
                   charts, run, nOps, closedFile>>

ResolveBuyPrices(symbols, week_start, until) ==
    /\ probe' = [symbols |-> symbols, week_start |-> week_start, until |-> until,
                 buys |-> find_week_buy_prices(symbols, week_start, until, prices),
                 fresh |-> TRUE]
    /\ UNCHANGED <<picksFiles, current, prices, results, weekReports, monthSummary,
                   charts, run, nOps, closedFile>>

NextBuy ==
    \/ \E d \in DateInputs, answer \in Answers : PutSnapshot(d, answer)
    \/ \E symbols \in SUBSET Symbols, week_start \in WeekStartInputs,
          until \in DateInputs \cup {6, 8} :
          ResolveBuyPrices(symbols, week_start, until)

SpecBuy == Init /\ [][NextBuy]_vars

-----------------------------------------------------------------------------
(* The picks alone: predict with and without --week-start, and the entry list *)
(* of a stored picks file put in another order by an edit of the file.        *)

\* the day predict is run on when --week-start is not given
\* (a Monday: the next Monday is a week later)
TodayInputs == {0}
\* --week-start as typed: a Monday, a Wednesday
WeekStartArgs == {0, 2}

\* target_monday of handle_predict
TargetMondays == WeekStartArgs \cup {next_monday(today) : today \in TodayInputs}

Reverse(s) == [i \in 1..Len(s) |-> s[Len(s) + 1 - i]]

\* the entries of one model in picks-<week_id>.json rewritten in reverse order,
\* each keeping its symbol_index
PermuteEntries(week_id, model) ==
    /\ week_id \in DOMAIN picksFiles
    /\ model \in DOMAIN picksFiles[week_id].picks
    /\ picksFiles' = [picksFiles EXCEPT ![week_id].picks[model] = Reverse(@)]
    /\ UNCHANGED <<current, prices, results, weekReports, monthSummary, charts,
                   run, nOps, probe, closedFile>>

NextPicks ==
    \/ \E week_id \in TargetMondays, input \in PredictInputs :
          Predict(week_id, input[1], input[2])
    \/ \E week_id \in TargetMondays, model \in Range(ModelOrder) :
          PermuteEntries(week_id, model)

SpecPicks == Init /\ [][NextPicks]_vars

-----------------------------------------------------------------------------
(* The calendar alone: the override file is rewritten, and the functions of   *)
(* market_calendar.py are called on the days of the first weeks.              *)

\* what data/calendar/manual_closed_dates.json can hold: no file, a file that
\* cannot be read, text that is not JSON, an object, an empty list, the file as
\* kept, a list with a string that is no date, a list with a number, the
\* whole second week, and the 37 days from the Monday of the third week on
ClosedFileInputs ==
    {[kind |-> "absent", items |-> <<>>],
     [kind |-> "unreadable", items |-> <<>>],
     [kind |-> "malformed", items |-> <<>>],
     [kind |-> "object", items |-> <<>>],
     [kind |-> "list", items |-> <<>>],
     ClosedFileKept,
     [kind |-> "list", items |-> <<DateItem(11), TextItem>>],
     [kind |-> "list", items |-> <<DateItem(11), NumberItem>>],
     [kind |-> "list", items |-> [i \in 1..5 |-> DateItem(6 + i)]],
     [kind |-> "list", items |-> [i \in 1..37 |-> DateItem(13 + i)]]}

\* the days the functions are called on
CalendarDates == 0..15

CalendarFunctions == {"is_trading_day", "next_trading_day", "next_monday",
                      "week_final_trading_day", "is_week_final_trading_day"}

\* is_trading_day(d) gets to manual_closed_dates() and that raises
IsTradingDayRaises(d) ==
    Weekday(d) < 5 /\ d \notin JpHolidays /\ closedFile.loaded.raised # ""

\* the call raises what manual_closed_dates() raised
CallRaises(fn, d) ==
    CASE fn = "is_trading_day" -> IsTradingDayRaises(d)
      [] fn = "next_trading_day" -> closedFile.loaded.raised # ""
      [] fn = "next_monday" -> FALSE
      [] fn = "week_final_trading_day" -> \E t \in d..(d + 6) : IsTradingDayRaises(t)
      [] fn = "is_week_final_trading_day" ->
            \E t \in week_start_for(d)..(week_start_for(d) + 6) : IsTradingDayRaises(t)

CallResult(fn, d) ==
    CASE fn = "is_trading_day" -> is_trading_day(d)
      [] fn = "next_trading_day" -> next_trading_day(d)
      [] fn = "next_monday" -> next_monday(d)
      [] fn = "week_final_trading_day" -> week_final_trading_day(d)
      [] fn = "is_week_final_trading_day" -> is_week_final_trading_day(d)

\* the override file is written anew; the next invocation loads it
WriteClosedFile(file) ==
    /\ closedFile' = Override(file)
    /\ probe' = NoProbe
    /\ UNCHANGED <<picksFiles, current, prices, results, weekReports, monthSummary,
                   charts, run, nOps>>

\* a function of the calendar is called on d: what it returned or raised
CalendarCall(fn, d) ==
    /\ probe' = IF CallRaises(fn, d)
                THEN [fn |-> fn, arg |-> d, raised |-> closedFile.loaded.raised,
                      result |-> NULL]
                ELSE [fn |-> fn, arg |-> d, raised |-> "", result |-> CallResult(fn, d)]
    /\ UNCHANGED <<picksFiles, current, prices, results, weekReports, monthSummary,
                   charts, run, nOps, closedFile>>

NextCalendar ==
    \/ \E file \in ClosedFileInputs : WriteClosedFile(file)
    \/ \E fn \in CalendarFunctions, d \in CalendarDates : CalendarCall(fn, d)

SpecCalendar == Init /\ [][NextCalendar]_vars

-----------------------------------------------------------------------------
(* Properties *)

\* the invocation that just ended was aggregate-daily and got past its
\* prerequisites and the return computation
Aggregated == run.op = "aggregate" /\ run.status \in {"ok", "TypeError"}

\* the trading days of week w up to d whose snapshot has an open for s
DaysWithOpen(s, w, d, store) ==
    {t \in w..(w + 6) : /\ is_trading_day(t)
                        /\ t <= d
                        /\ t \in DOMAIN store
                        /\ s \in DOMAIN store[t]
                        /\ store[t][s].open # NULL}

EarliestOpen(s, w, d, store) ==
    IF DaysWithOpen(s, w, d, store) = {} THEN NULL
    ELSE LET t == CHOOSE x \in DaysWithOpen(s, w, d, store) :
                     \A y \in DaysWithOpen(s, w, d, store) : x <= y
         IN  store[t][s].open

\* C1: for every set of picked symbols, week start w and target date d,
\* find_week_buy_prices gives each symbol the open of the earliest trading day
\* of the week, not after d, whose snapshot has an open for it, and None when
\* there is no such day; a snapshot after d is never used.
C1_BuyPriceIsEarliestOpen ==
    probe.fresh =>
       /\ DOMAIN probe.buys = probe.symbols
       /\ \A s \in probe.symbols :
             probe.buys[s] = EarliestOpen(s, probe.week_start, probe.until, prices)

\* C1 witness: Monday is a holiday, the Tuesday snapshot has no open for A,
\* the Wednesday one has, the Friday one has another, and the call for
\* Wednesday returned Wednesday's open for A.
C1_Witness ==
    /\ probe.fresh /\ probe.week_start = 0 /\ probe.until = 2
    /\ probe.symbols = Symbols
    /\ ~is_trading_day(0)
    /\ {1, 2, 4} \subseteq DOMAIN prices
    /\ prices[1]["A"].open = NULL
    /\ prices[2]["A"].open # NULL
    /\ prices[4]["A"].open \notin {NULL, prices[2]["A"].open}
    /\ probe.buys["A"] = prices[2]["A"].open

\* the return the specification defines for a buy price and a close
ExpectedReturn(buy, close) ==
    IF buy = NULL \/ close = NULL \/ buy = 0 THEN NullRet
    ELSE <<(close - buy) \div GCD(Abs(close - buy), buy), buy \div GCD(Abs(close - buy), buy)>>

\* C2: the return computation never raises: whenever aggregate-daily gets to
\* compute returns, compute_returns and the llm_avg loop give every symbol
\* (close - buy) / buy, and None when buy or close is None or buy is 0.
C2_ReturnNeverRaises ==
    (run.op = "aggregate" /\ run.status \notin {"skip", "SystemExit"}) =>
       LET rps == returns_per_symbol(load_current_picks, run.date, prices)
           returns == compute_returns([s \in DOMAIN rps |->
                          [open |-> rps[s].buy_open, close |-> rps[s].close]])
       IN  /\ run.status # "ZeroDivisionError"
           /\ \A s \in DOMAIN rps :
                 returns[s] = ExpectedReturn(rps[s].buy_open, rps[s].close)

\* the sum of the fractions of a sequence, not reduced
RECURSIVE PlainSum(_)
PlainSum(fracs) ==
    IF fracs = <<>> THEN <<0, 1>>
    ELSE LET rest == PlainSum(Tail(fracs))
         IN  <<fracs[1][1] * rest[2] + rest[1] * fracs[1][2], fracs[1][2] * rest[2]>>

\* avg is the arithmetic mean of the fractions, None when there is none
IsMeanOf(avg, fracs) ==
    IF fracs = <<>> THEN avg = NullRet
    ELSE /\ avg[2] > 0
         /\ avg[1] * (PlainSum(fracs)[2] * Len(fracs)) = avg[2] * PlainSum(fracs)[1]

\* the defined returns of the symbols of a pick, as (close - buy) over buy
DefinedReturns(symbols, per_symbol) ==
    LET usable == SelectSeq(symbols,
                      LAMBDA s : /\ per_symbol[s].buy_open \notin {NULL, 0}
                                 /\ per_symbol[s].close # NULL)
    IN  [k \in DOMAIN usable |->
           <<per_symbol[usable[k]].close - per_symbol[usable[k]].buy_open,
             per_symbol[usable[k]].buy_open>>]

\* C3: in every persisted daily result, the llm_avg of every model of the picks
\* is the arithmetic mean of the defined returns of the model's symbols, and
\* None, not 0, when no symbol of the model has a defined return;
\* compute_llm_avg gives the same on the returns of compute_returns.
C3_LlmAvgIsMeanOfDefined ==
    \A d \in DOMAIN results :
       LET rows == results[d].md.rows
           json == results[d].json
           returns == compute_returns([s \in DOMAIN json.per_symbol |->
                          [open |-> json.per_symbol[s].buy_open,
                           close |-> json.per_symbol[s].close]])
       IN  /\ DOMAIN json.llm_avg = {rows[i].model : i \in DOMAIN rows}
           /\ \A i \in DOMAIN rows :
                 /\ IsMeanOf(json.llm_avg[rows[i].model],
                             DefinedReturns(rows[i].symbols, json.per_symbol))
                 /\ ~Raises(returns) =>
                       compute_llm_avg(rows, returns)[rows[i].model]
                          = json.llm_avg[rows[i].model]

\* C3 witness: a persisted result where B has no return, so that gpt (A, B)
\* averages the return of A alone and claude (B, B) has no average.
C3_Witness ==
    \E d \in DOMAIN results :
       /\ results[d].json.per_symbol["B"].buy_open = NULL
       /\ results[d].json.per_symbol["A"].buy_open = 2
       /\ results[d].json.per_symbol["A"].close = 3
       /\ DOMAIN results[d].json.llm_avg = {"claude", "gpt"}
       /\ results[d].json.llm_avg["gpt"] = <<1, 2>>
       /\ results[d].json.llm_avg["claude"] = NullRet

\* C4: for dates d1 < d2 of one week, when the snapshots at the run for d2 are
\* those of the run for d1, unchanged, and more, every symbol with a buy price
\* at d1 has a buy price at d2.
C4_BuyPriceMonotone ==
    \A d2 \in Dates :
       (/\ probe.symbols # {}
        /\ probe.week_start = week_start_for(probe.until)
        /\ probe.until < d2
        /\ week_start_for(d2) = probe.week_start) =>
          \A s \in probe.symbols :
             probe.buys[s] # NULL =>
                find_week_buy_prices(probe.symbols, probe.week_start, d2, prices)[s] # NULL

\* C4 witness: the call for Tuesday returned a buy price for A, Wednesday's
\* snapshot was written after it and has no open for A, and the call for
\* Wednesday returns the same buy price.
C4_Witness ==
    /\ ~probe.fresh /\ probe.week_start = 0 /\ probe.until = 1
    /\ probe.symbols = Symbols
    /\ probe.buys["A"] # NULL
    /\ 2 \in DOMAIN prices
    /\ prices[2]["A"].open = NULL
    /\ find_week_buy_prices(Symbols, 0, 2, prices)["A"] = probe.buys["A"]

\* C5: aggregate-daily for a date computes its returns from the picks saved
\* for the week of that date, never from the picks of another week.
C5_AggregateUsesWeekPicks ==
    Aggregated => current["current"].week_start = week_start_for(run.date)

\* C6: when the snapshot of a date is written again, every field that was
\* known and is None or absent in the new fetch keeps its known value, and a
\* newly fetched close that is not None replaces the old one.
C6_MergeOnWrite ==
    [][(run'.op = "fetch" /\ run'.status = "ok" /\ run'.date \in DOMAIN prices) =>
         \A s \in DOMAIN prices[run'.date], f \in Fields :
            /\ (prices[run'.date][s][f] # NULL /\ Field(run'.fetched, s, f) = NULL) =>
                  Field(prices'[run'.date], s, f) = prices[run'.date][s][f]
            /\ Field(run'.fetched, s, "close") # NULL =>
                  Field(prices'[run'.date], s, "close") = Field(run'.fetched, s, "close")]_vars

TableOf(month) == IF month \in DOMAIN monthSummary THEN monthSummary[month].table ELSE <<>>
TableDays(month) == {TableOf(month)[i].day : i \in DOMAIN TableOf(month)}

\* the persisted results of the month of the date that has just been aggregated
MonthResults == {x \in DOMAIN results : MonthOf(x) = MonthOf(run.date)}

C9_MonthlyFilter ==
    Aggregated =>
       /\ \A x \in MonthResults :
             x \in TableDays(MonthOf(run.date)) <=> AnyValue(results[x].json.llm_avg)
       /\ \A i, j \in DOMAIN TableOf(MonthOf(run.date)) :
             i < j => TableOf(MonthOf(run.date))[i].day < TableOf(MonthOf(run.date))[j].day

\* C10: whenever aggregate-daily runs for the last trading day d of a week,
\* the picks and d's snapshot being there, the week report of that run is
\* persisted: the rows of every model's symbols from the week's buy prices and
\* d's closes.
C10_WeekFinalReportWritten ==
    (/\ run.op = "aggregate"
     /\ run.status \notin {"skip", "SystemExit"}
     /\ is_week_final_trading_day(run.date)) =>
       /\ week_start_for(run.date) \in DOMAIN weekReports
       /\ weekReports[week_start_for(run.date)] =
             summarize_week_final(week_start_for(run.date), run.date, load_current_picks,
                 [s \in SymbolsOf(load_current_picks) |->
                    [open |-> EarliestOpen(s, week_start_for(run.date), run.date, prices),
                     close |-> Field(load_daily_prices(prices, run.date), s, "close")]])

\* the same with the runs left out that the division by a zero buy price ends
WeekFinalReportUnlessRaised ==
    (Aggregated /\ is_week_final_trading_day(run.date)) =>
       /\ week_start_for(run.date) \in DOMAIN weekReports
       /\ weekReports[week_start_for(run.date)] =
             summarize_week_final(week_start_for(run.date), run.date, load_current_picks,
                 [s \in SymbolsOf(load_current_picks) |->
                    [open |-> EarliestOpen(s, week_start_for(run.date), run.date, prices),
                     close |-> Field(load_daily_prices(prices, run.date), s, "close")]])

\* C11: after aggregate-daily the monthly summary is there and carries, for
\* the days of its table, the set of those that are the last trading day of
\* their week.
C11_MonthlyWeekFinalFlags ==
    Aggregated =>
       /\ run.status = "ok"
       /\ MonthOf(run.date) \in DOMAIN monthSummary
       /\ "week_finals" \in DOMAIN monthSummary[MonthOf(run.date)]
       /\ monthSummary[MonthOf(run.date)].week_finals =
             {d \in TableDays(MonthOf(run.date)) : is_week_final_trading_day(d)}

\* the rows of the holdings table of a summary: week, model, position, symbol
HoldingRows(summary) ==
    {<<h.week_start, h.model, k, h.picks[k].symbol>> :
        <<h, k>> \in {<<h, k>> \in summary.holdings \X (1..2) : k \in DOMAIN h.picks}}

\* C12: after aggregate-daily for a date, the holdings of the month's summary
\* are the (week, model, symbol) triples of every picks file whose week id is
\* in the month, whether or not the week has a result.
C12_HoldingsRollUp ==
    Aggregated =>
       /\ MonthOf(run.date) \in DOMAIN monthSummary
       /\ HoldingRows(monthSummary[MonthOf(run.date)]) =
             {<<w, m, k, picksFiles[w].picks[m][k].symbol>> :
                <<w, m, k>> \in {<<w, m, k>> \in (DOMAIN picksFiles) \X Range(ModelOrder) \X (1..2) :
                                    /\ MonthOf(w) = MonthOf(run.date)
                                    /\ m \in DOMAIN picksFiles[w].picks
                                    /\ k \in DOMAIN picksFiles[w].picks[m]}}

\* the picks handed to a save, as a load has to give them back: one pick for
\* each model, the models in ascending order
PicksByModel(picks) ==
    LET models == SortedModels({picks[i].model : i \in DOMAIN picks})
    IN  [i \in 1..Len(models) |->
           picks[CHOOSE j \in DOMAIN picks : picks[j].model = models[i]]]

\* C13: a predict that saves makes load of its week and loadCurrent return the
\* picks it saved and leaves the load of every other week as it was; any other
\* step leaves every load as it was; the load of a week never saved and
\* loadCurrent before any save return the empty list.
C13_PickStorePointer ==
    [][/\ (run'.op = "predict" /\ run'.status = "ok" /\ nOps' # nOps) =>
             \A llms \in LlmInputs : \A resp \in ResponseMaps(llms) :
                (~GenerateLoop(llms, resp, <<>>).raised /\ Predict(run'.date, llms, resp)) =>
                   /\ object_to_picks(picksFiles', run'.date) =
                         PicksByModel(GenerateLoop(llms, resp, <<>>).picks)
                   /\ object_to_picks(current', "current") =
                         PicksByModel(GenerateLoop(llms, resp, <<>>).picks)
                   /\ \A w \in TargetMondays \ {run'.date} :
                         object_to_picks(picksFiles', w) = load_picks(w)
       /\ ~(run'.op = "predict" /\ run'.status = "ok" /\ nOps' # nOps) =>
             /\ \A w \in TargetMondays : object_to_picks(picksFiles', w) = load_picks(w)
             /\ object_to_picks(current', "current") = load_current_picks
       /\ \A w \in TargetMondays : w \notin DOMAIN picksFiles => load_picks(w) = <<>>
       /\ current = EmptyFn => load_current_picks = <<>>]_vars

\* C13 witness: a week saved a second time, another week saved too, and the
\* current record that of the week saved last.
C13_Witness ==
    /\ run.op = "predict" /\ run.status = "ok" /\ run.again
    /\ \E w \in DOMAIN picksFiles :
          /\ w # run.date
          /\ load_picks(w) # load_picks(run.date)
    /\ load_current_picks = load_picks(run.date)
    /\ \E w \in TargetMondays : load_picks(w) = <<>>

\* a picks document with the entry list of every model in reverse order
Permuted(obj) == [obj EXCEPT !.picks = [m \in DOMAIN obj.picks |-> Reverse(obj.picks[m])]]

\* C14: whatever picks a predict hands to the save, loading the saved document
\* gives every model's symbols, reasons and methods in the order saved, also
\* when the entry lists of the document are stored in reverse; and every stored
\* picks file loads each entry at the place its symbol_index names.
C14_PickOrderRoundTrip ==
    /\ \A llms \in LlmInputs : \A resp \in ResponseMaps(llms) :
          LET gen == GenerateLoop(llms, resp, <<>>)
              obj == picks_to_object(0, gen.picks)
          IN  ~gen.raised =>
                 /\ object_to_picks([x \in {0} |-> obj], 0) = PicksByModel(gen.picks)
                 /\ object_to_picks([x \in {0} |-> Permuted(obj)], 0) = PicksByModel(gen.picks)
    /\ \A w \in DOMAIN picksFiles : \A i \in DOMAIN load_picks(w) :
          LET pick == load_picks(w)[i]
              entries == picksFiles[w].picks[pick.model]
          IN  /\ Len(pick.symbols) = Len(entries)
              /\ \A k \in DOMAIN entries :
                    /\ pick.symbols[entries[k].symbol_index + 1] = entries[k].symbol
                    /\ pick.reasons[entries[k].symbol_index + 1] = entries[k].reason
                    /\ pick.methods[entries[k].symbol_index + 1] = entries[k].method

\* C14 witness: a stored picks file whose entries for gpt are out of order,
\* loaded in the order saved.
C14_Witness ==
    \E w \in DOMAIN picksFiles :
       /\ "gpt" \in DOMAIN picksFiles[w].picks
       /\ picksFiles[w].picks["gpt"][1].symbol_index = 1
       /\ picksFiles[w].picks["gpt"][1].symbol = "B"
       /\ \E i \in DOMAIN load_picks(w) :
             load_picks(w)[i].model = "gpt" /\ load_picks(w)[i].symbols = <<"A", "B">>

\* C15: when predict runs for several models and the client of one fails or
\* answers fewer than two symbols, the picks of every other model are saved
\* under the week all the same.
C15_FailureIsolation ==
    [][(run'.op = "predict" /\ nOps' # nOps) =>
          \A llms \in LlmInputs : \A resp \in ResponseMaps(llms) :
             Predict(run'.date, llms, resp) =>
                \A m \in Range(llms) :
                   (~resp[m].fail /\ Len(resp[m].symbols) >= 2) =>
                      \E i \in DOMAIN object_to_picks(picksFiles', run'.date) :
                         /\ object_to_picks(picksFiles', run'.date)[i].model = m
                         /\ object_to_picks(picksFiles', run'.date)[i].symbols =
                               Take(resp[m].symbols, 2)]_vars

\* the picks documents predict has persisted: the week files and current.json
PickDocuments == Range(picksFiles) \cup Range(current)

\* the picks every load returns
LoadedPicks ==
    UNION ({Range(load_picks(w)) : w \in DOMAIN picksFiles} \cup {Range(load_current_picks)})

\* C16: every model of every persisted picks document has exactly two
\* entries, and every pick a load returns has two symbols and as many reasons
\* and methods as symbols.
C16_TwoPicksPerModel ==
    /\ \A doc \in PickDocuments : \A m \in DOMAIN doc.picks : Len(doc.picks[m]) = 2
    /\ \A pick \in LoadedPicks :
          /\ Len(pick.symbols) = 2
          /\ Len(pick.reasons) = Len(pick.symbols)
          /\ Len(pick.methods) = Len(pick.symbols)

\* C16 witness: a predict has just failed, and a pick is stored that was cut
\* from an answer of three symbols without reasons.
C16_Witness ==
    /\ run.op = "predict" /\ run.status = "ValueError"
    /\ \E pick \in LoadedPicks :
          /\ pick.model = "claude"
          /\ pick.symbols = <<"B", "B">>
          /\ pick.reasons = <<"", "">>

\* C17: aggregate-daily on a trading day without current picks or without
\* the snapshot of the day ends in SystemExit with no result, week report,
\* monthly summary or chart created or changed; fetch-daily on a trading day
\* without current picks ends in SystemExit with the snapshots as they were.
C17_MissingPrerequisiteStops ==
    [][/\ (/\ nOps' # nOps /\ run'.op = "aggregate" /\ is_trading_day(run'.date)
           /\ (load_current_picks = <<>> \/ run'.date \notin DOMAIN prices)) =>
             /\ run'.status = "SystemExit"
             /\ results' = results
             /\ weekReports' = weekReports
             /\ monthSummary' = monthSummary
             /\ charts' = charts
       /\ (/\ nOps' # nOps /\ run'.op = "fetch" /\ is_trading_day(run'.date)
           /\ load_current_picks = <<>>) =>
             /\ run'.status = "SystemExit"
             /\ prices' = prices]_vars

\* C17 witness: aggregate-daily has just stopped for want of the day's
\* snapshot, the picks and an earlier result being there.
C17_Witness ==
    /\ run.op = "aggregate" /\ run.status = "SystemExit"
    /\ is_trading_day(run.date)
    /\ load_current_picks # <<>>
    /\ run.date \notin DOMAIN prices
    /\ results # EmptyFn

\* C18: fetch-daily and aggregate-daily for a date that is not a trading day
\* end without an exception and leave the picks, the snapshots, the results
\* and the reports as they were.
C18_NonTradingDayNoOp ==
    [][(/\ nOps' # nOps /\ run'.op \in {"fetch", "aggregate"}
        /\ ~is_trading_day(run'.date)) =>
          /\ run'.status = "skip"
          /\ UNCHANGED <<picksFiles, current, prices, results, weekReports,
                         monthSummary, charts>>]_vars

\* C18 witness: aggregate-daily has just skipped a holiday that has no
\* snapshot, results of other days being there.
C18_Witness ==
    /\ run.op = "aggregate" /\ run.status = "skip"
    /\ ~is_trading_day(run.date)
    /\ run.date \notin DOMAIN prices
    /\ results # EmptyFn

\* a rendered table shows no number where the price or the return is None
RowsShowGaps(rows, px) ==
    \A i \in DOMAIN rows : \A k \in 1..2 :
       LET s == rows[i].symbols[k]
       IN  /\ px[s].buy_open = NULL => rows[i].open[k] = NULL
           /\ px[s].close = NULL => rows[i].close[k] = NULL
           /\ (px[s].buy_open = NULL \/ px[s].close = NULL) => rows[i].ret[k] = NullRet

\* C19: a buy price, a close or a return that is None is None in the persisted
\* daily result and is shown as N/A, never as 0.00 or 0.00%, in the daily
\* table and in the week table.
C19_GapNeverShownAsZero ==
    /\ \A d \in DOMAIN results :
          /\ \A i \in DOMAIN results[d].md.rows :
                results[d].md.rows[i].avg = NullRet =>
                   results[d].json.llm_avg[results[d].md.rows[i].model] = NullRet
          /\ RowsShowGaps(results[d].md.rows, results[d].json.per_symbol)
    /\ \A w \in DOMAIN weekReports :
          \A i \in DOMAIN weekReports[w].body.rows : \A k \in 1..2 :
             weekReports[w].body.rows[i].avg = NullRet =>
                weekReports[w].body.rows[i].ret[k] = NullRet

\* C20: every week id predict persists picks under, the name of the week file
\* and the week_start of the documents, is a Monday.
C20_WeekIdIsMonday ==
    /\ \A w \in DOMAIN picksFiles : Weekday(w) = 0
    /\ \A doc \in PickDocuments : Weekday(doc.week_start) = 0

\* the function of the calendar that was called last returned
Returned(fn) == "fn" \in DOMAIN probe /\ probe.fn = fn /\ probe.raised = ""

\* C21: next_trading_day never walks over a closed stretch of more than 30
\* days: it stops with a fault instead of returning a day that far away.
C21_NextTradingDayBounded ==
    Returned("next_trading_day") => probe.result - probe.arg <= 30

\* C22: what next_trading_day(d) returns is at or after d, is a trading day,
\* and no day from d up to it is a trading day.
C22_NextTradingDayIsFirst ==
    Returned("next_trading_day") =>
       /\ probe.result >= probe.arg
       /\ Weekday(probe.result) < 5
       /\ probe.result \notin JpHolidays
       /\ probe.result \notin closedFile.loaded.dates
       /\ \A t \in probe.arg..(probe.result - 1) :
             Weekday(t) >= 5 \/ t \in JpHolidays \/ t \in closedFile.loaded.dates

\* C22 witness: called on the Friday closed by hand, it returned the Monday
\* after the weekend.
C22_Witness ==
    /\ Returned("next_trading_day")
    /\ closedFile.file = ClosedFileKept
    /\ probe.arg = 11 /\ probe.result = 14

\* C23: next_monday(d) is a Monday after d and at most 7 days after it, and
\* is d + 7 when d is a Monday.
C23_NextMonday ==
    Returned("next_monday") =>
       /\ probe.result % 7 = 0
       /\ probe.result > probe.arg
       /\ probe.result <= probe.arg + 7
       /\ (probe.arg % 7 = 0 => probe.result = probe.arg + 7)

\* C23 witness: called on a Monday, it returned the Monday a week later.
C23_Witness ==
    Returned("next_monday") /\ probe.arg = 7 /\ probe.result = 14

\* the trading days among the seven days from w on
TradingDaysFrom(w) ==
    {t \in w..(w + 6) :
        Weekday(t) < 5 /\ t \notin JpHolidays /\ t \notin closedFile.loaded.dates}

\* C24: week_final_trading_day(w) is the greatest trading day among w .. w+6
\* and is None exactly when there is none; trading_days_in_week(w) lists
\* these days in ascending order.
C24_WeekFinalIsMax ==
    Returned("week_final_trading_day") =>
       /\ probe.result = NULL <=> TradingDaysFrom(probe.arg) = {}
       /\ probe.result # NULL =>
             /\ probe.result \in TradingDaysFrom(probe.arg)
             /\ \A t \in TradingDaysFrom(probe.arg) : t <= probe.result
       /\ Range(trading_days_in_week(probe.arg)) = TradingDaysFrom(probe.arg)
       /\ \A i, j \in DOMAIN trading_days_in_week(probe.arg) :
             i < j => trading_days_in_week(probe.arg)[i] < trading_days_in_week(probe.arg)[j]

\* C24 witness: called on the Monday of a week closed on all five days, it
\* returned None.
C24_Witness ==
    /\ Returned("week_final_trading_day")
    /\ probe.arg = 7 /\ probe.result = NULL
    /\ closedFile.loaded.dates = 7..11

\* C25: is_week_final_trading_day(d) holds exactly when d is
\* week_final_trading_day(week_start_for(d)); in a week with a trading day it
\* holds of that day, of no other day of the week, and that day is a trading
\* day.
C25_WeekFinalPredicate ==
    Returned("is_week_final_trading_day") =>
       LET w == probe.arg - (probe.arg % 7)
           last == week_final_trading_day(w)
       IN  /\ probe.result <=> (probe.arg = last)
           /\ TradingDaysFrom(w) # {} =>
                 /\ is_week_final_trading_day(last)
                 /\ {t \in w..(w + 6) : is_week_final_trading_day(t)} = {last}
                 /\ last \in TradingDaysFrom(w)

\* C25 witness: called on the Thursday before the Friday closed by hand, it
\* returned true.
C25_Witness ==
    /\ Returned("is_week_final_trading_day")
    /\ closedFile.file = ClosedFileKept
    /\ probe.arg = 10 /\ probe.result = TRUE

\* C26: manual_closed_dates() never raises, whatever the override file holds:
\* it yields the valid dates of a list and the empty set otherwise, and
\* is_trading_day returns a boolean.
C26_OverrideNeverRaises ==
    /\ closedFile.loaded.raised = ""
    /\ closedFile.loaded.dates =
          IF closedFile.file.kind = "list"
          THEN {closedFile.file.items[i].day :
                  i \in {j \in DOMAIN closedFile.file.items :
                            closedFile.file.items[j].type = "date"}}
          ELSE {}
    /\ ("fn" \in DOMAIN probe /\ probe.fn = "is_trading_day") =>
          probe.raised = "" /\ probe.result \in BOOLEAN

\* C27: once an aggregate run of a week has persisted a buy price for a
\* symbol, every later aggregate run for the same or a later date of that week
\* persists the same buy price for it, whatever was fetched in between.
C27_BuyPriceStable ==
    [][(nOps' # nOps /\ run'.op = "aggregate" /\ run'.status \in {"ok", "TypeError"}) =>
          \A d \in DOMAIN results :
             (week_start_for(d) = week_start_for(run'.date) /\ d <= run'.date) =>
                \A s \in DOMAIN results[d].json.per_symbol :
                   (/\ s \in DOMAIN results'[run'.date].json.per_symbol
                    /\ results[d].json.per_symbol[s].buy_open # NULL) =>
                      results'[run'.date].json.per_symbol[s].buy_open =
                         results[d].json.per_symbol[s].buy_open]_vars

\* the files of new are those of old, but for the one at key
OnlyAt(old, new, key) ==
    /\ DOMAIN old \subseteq DOMAIN new
    /\ DOMAIN new \subseteq DOMAIN old \cup {key}
    /\ \A k \in DOMAIN old : k # key => new[k] = old[k]

\* C28: fetch-daily for d changes no file but the snapshot of d; aggregate-daily
\* for d changes no picks file and no snapshot, and of the results and reports
\* none but the result of d, the week report of d's week and the summary and
\* chart of d's month.
C28_FrameOfDailyJobs ==
    [][/\ (nOps' # nOps /\ run'.op = "fetch") =>
             /\ OnlyAt(prices, prices', run'.date)
             /\ UNCHANGED <<picksFiles, current, results, weekReports, monthSummary, charts>>
       /\ (nOps' # nOps /\ run'.op = "aggregate") =>
             /\ UNCHANGED <<picksFiles, current, prices>>
             /\ OnlyAt(results, results', run'.date)
             /\ OnlyAt(weekReports, weekReports', week_start_for(run'.date))
             /\ OnlyAt(monthSummary, monthSummary', MonthOf(run'.date))
             /\ charts \subseteq charts'
             /\ charts' \subseteq charts \cup {MonthOf(run'.date)}]_vars

\* C28 witness: a snapshot has just been fetched for a day while the snapshot
\* and the result of another day are there.
C28_Witness ==
    /\ run.op = "fetch" /\ run.status = "ok"
    /\ \E d \in DOMAIN prices : d # run.date /\ d \in DOMAIN results
    /\ run.date \notin DOMAIN results

\* C29: a predict in which the generation fails for a requested model leaves
\* the week files and the current record as they were; a predict that succeeds
\* leaves the same picks under the same week id in the week file and in the
\* current record; and it fails exactly when some requested model fails or
\* answers fewer than two symbols.
C29_PredictAllOrNothing ==
    [][(nOps' # nOps /\ run'.op = "predict") =>
          /\ run'.status # "ok" => UNCHANGED <<picksFiles, current>>
          /\ run'.status = "ok" =>
                /\ run'.date \in DOMAIN picksFiles'
                /\ picksFiles'[run'.date] = current'["current"]
                /\ current'["current"].week_start = run'.date
                /\ object_to_picks(picksFiles', run'.date) =
                      object_to_picks(current', "current")
          /\ \A input \in PredictInputs :
                Predict(run'.date, input[1], input[2]) =>
                   (run'.status # "ok" <=>
                      \E m \in Range(input[1]) :
                         input[2][m].fail \/ Len(input[2][m].symbols) < 2)]_vars

\* C29 witness: a predict has just failed for a week while files of two weeks
\* are there and the current record is that of another week.
C29_Witness ==
    /\ run.op = "predict" /\ run.status = "ValueError"
    /\ run.date \in DOMAIN picksFiles
    /\ current # EmptyFn
    /\ current["current"].week_start # run.date
    /\ current["current"].week_start \in DOMAIN picksFiles

====
